---- MODULE Spec2Model ----
(***************************************************************************)
(* BedrockLogs (LLM_eval/BedRockLogger/observability.py): the recorder's   *)
(* constructor, the nested-key finder, the session resolver, the trace     *)
(* step annotator and the wrapper produced by watch(), with the three      *)
(* sinks (local, S3, Firehose).                                            *)
(***************************************************************************)
EXTENDS Integers, Sequences, FiniteSets, TLC

(***************************************************************************)
(* Python values.  Every value is a record tagged with its Python type, so *)
(* that isinstance() is a test on the tag.  Floats are wall-clock readings *)
(* counted in clock ticks.  A dict is the sequence of its items in         *)
(* insertion order.                                                        *)
(***************************************************************************)
None == [t |-> "none"]
PyInt(n) == [t |-> "int", i |-> n]
PyFloat(x) == [t |-> "float", f |-> x]
PyStr(s) == [t |-> "str", s |-> s]
PyBool(b) == [t |-> "bool", b |-> b]
PyList(items) == [t |-> "list", items |-> items]
PyTuple(items) == [t |-> "tuple", items |-> items]
PyDict(kv) == [t |-> "dict", kv |-> kv]
Item(k, v) == [k |-> k, v |-> v]

\* the(S): the element of a one-element set.  the({e(x) : x \in {v}}) is e(v),
\* with v computed once: the way a local variable holds a call's result.
the(S) == CHOOSE x \in S : TRUE

\* isinstance(d, dict) and k in d
HasKey(d, k) == d.t = "dict" /\ \E n \in 1..Len(d.kv) : d.kv[n].k = k
KeyIndex(d, k) == CHOOSE n \in 1..Len(d.kv) : d.kv[n].k = k
\* d[k]
DictGet(d, k) == d.kv[KeyIndex(d, k)].v
\* d[k] = v: an existing key keeps its place, a new key goes last
DictSet(d, k, v) ==
    IF HasKey(d, k)
    THEN PyDict([d.kv EXCEPT ![KeyIndex(d, k)] = Item(k, v)])
    ELSE PyDict(Append(d.kv, Item(k, v)))
\* d.update(e)
RECURSIVE DictUpdateFrom(_, _, _)
DictUpdateFrom(d, e, n) ==
    IF n > Len(e.kv) THEN d
    ELSE DictUpdateFrom(DictSet(d, e.kv[n].k, e.kv[n].v), e, n + 1)
DictUpdate(d, e) == DictUpdateFrom(d, e, 1)
\* bool(v) for the values the wrapper tests: None, empty containers are falsy
Truthy(v) ==
    CASE v.t = "none" -> FALSE
      [] v.t = "dict" -> Len(v.kv) > 0
      [] v.t \in {"list", "tuple"} -> Len(v.items) > 0
      [] v.t = "bool" -> v.b
      [] v.t = "int" -> v.i # 0
      [] OTHER -> TRUE

(***************************************************************************)
(* find_keys: all (path, value) pairs for a key in a nested structure.     *)
(* A path element is a dict key [k |-> ...] or a list index [i |-> ...].  *)
(***************************************************************************)
RECURSIVE find_keys(_, _, _), find_keys_items(_, _, _, _), find_keys_elems(_, _, _, _)
\* the loop over dictionary.items(), from item n on
find_keys_items(kv, key, path, n) ==
    IF n > Len(kv) THEN <<>>
    ELSE LET new_path == Append(path, [k |-> kv[n].k])
         IN  (IF kv[n].k = key
              THEN << <<new_path, kv[n].v>> >>
              ELSE find_keys(kv[n].v, key, new_path))
             \o find_keys_items(kv, key, path, n + 1)
enumerate_from_one(n) == n
\* the index enumerate() gives the n-th element: it counts from 0
enumerate_index(n) == n - 1
\* the loop over enumerate(dictionary), from element n on
find_keys_elems(items, key, path, n) ==
    IF n > Len(items) THEN <<>>
    ELSE LET new_path == Append(path, [i |-> enumerate_index(n)])
         IN  find_keys(items[n], key, new_path)
             \o find_keys_elems(items, key, path, n + 1)
find_keys(dictionary, key, path) ==
    IF dictionary.t = "dict" THEN find_keys_items(dictionary.kv, key, path, 1)
    ELSE IF dictionary.t = "list" THEN find_keys_elems(dictionary.items, key, path, 1)
    ELSE <<>>

(***************************************************************************)
(* extract_session_id.  str(uuid4()) is the n-th identifier drawn from the *)
(* generator; the caller advances the generator when one was drawn.        *)
(***************************************************************************)
uuid4(n) == [t |-> "str", uuid |-> n]
SessionKey(feature_name) ==
    IF feature_name = PyStr("Agent")
    THEN "x-amz-bedrock-agent-session-id"
    ELSE "sessionId"
last_match(paths) == paths[Len(paths)]
\* session_id_paths[0]
first_match(paths) == paths[1]
session_id_paths(feature_name, log_data) ==
    find_keys(log_data, SessionKey(feature_name), <<>>)
\* [value: the session id returned, fresh: whether uuid4() was called]
extract_session_id(feature_name, log_data, uuid_n) ==
    LET paths == session_id_paths(feature_name, log_data)
    IN  IF Len(paths) > 0
        THEN [value |-> first_match(paths)[2], fresh |-> FALSE]
        ELSE [value |-> uuid4(uuid_n), fresh |-> TRUE]

(***************************************************************************)
(* handle_agent_feature.  The loop state st is                             *)
(*   prev: prev_trace_time (None or a float), ctr: self.step_counter,      *)
(*   err: "" or the exception raised, log: the annotations written so far, *)
(*   in the order they were written.                                       *)
(* Each step returns the element as mutated (el) and the new loop state.   *)
(***************************************************************************)
\* the number a float or an int stands for; other types do not subtract
IsNumber(v) == v.t \in {"float", "int"}
Num(v) == IF v.t = "int" THEN v.i ELSE v.f
is_float_or_any(v) == TRUE
\* isinstance(v, float)
is_float(v) == v.t = "float"
latency_since_request(stt, prev_trace_time, request_start_time) ==
    Num(stt) - request_start_time
\* the latency of a node: since the previous node, or since the request started
trace_latency(stt, prev_trace_time, request_start_time) ==
    IF prev_trace_time = None
    THEN Num(stt) - request_start_time
    ELSE Num(stt) - Num(prev_trace_time)
same_step(step_counter) == step_counter
step_skipped(step_counter) == step_counter + 2
\* self.step_counter += 1
next_step(step_counter) == step_counter + 1
\* the block that validates and annotates one node carrying start_trace_time
\* (the code repeats it for a top-level 'trace', a sequence element and a
\* sequence element's 'trace')
annotate_node(node, st, request_start_time) ==
    LET stt == DictGet(node, "start_trace_time")
    IN  IF ~is_float(stt)
        THEN [el |-> node, st |-> [st EXCEPT !.err = "ValueError"]]
        ELSE IF ~IsNumber(stt)
        THEN [el |-> node, st |-> [st EXCEPT !.err = "TypeError"]]
        ELSE LET latency == trace_latency(stt, st.prev, request_start_time)
                 n1 == DictSet(node, "latency", PyFloat(latency))
                 n2 == DictSet(n1, "step_number", PyInt(st.ctr))
             IN  [el |-> n2,
                  st |-> [prev |-> stt,
                          ctr |-> next_step(st.ctr),
                          err |-> "",
                          log |-> Append(st.log,
                                         [start_trace_time |-> Num(stt),
                                          latency |-> DictGet(n2, "latency").f,
                                          step_number |-> DictGet(n2, "step_number").i])]]
\* a mapping with key 'trace': annotate the nested mapping and store it back
annotate_trace(data, st, request_start_time) ==
    LET trace == DictGet(data, "trace")
    IN  IF HasKey(trace, "start_trace_time")
        THEN the({IF r.st.err # ""
                  THEN [el |-> data, st |-> r.st]
                  ELSE [el |-> DictSet(data, "trace", r.el), st |-> r.st] :
                  r \in {annotate_node(trace, st, request_start_time)}})
        ELSE [el |-> data, st |-> st]
handle_item_untouched(item, st, request_start_time) == [el |-> item, st |-> st]
\* one element of a top-level sequence
handle_item(item, st, request_start_time) ==
    IF HasKey(item, "start_trace_time") THEN annotate_node(item, st, request_start_time)
    ELSE IF HasKey(item, "trace") THEN annotate_trace(item, st, request_start_time)
    ELSE [el |-> item, st |-> st]
RECURSIVE handle_items(_, _, _, _)
\* for item in data, from item n on; the raise ends the loop
handle_items(items, n, st, request_start_time) ==
    IF n > Len(items) \/ st.err # "" THEN [el |-> items, st |-> st]
    ELSE the({handle_items([items EXCEPT ![n] = r.el], n + 1, r.st, request_start_time) :
              r \in {handle_item(items[n], st, request_start_time)}})
\* one top-level element
handle_data(data, st, request_start_time) ==
    IF HasKey(data, "trace") THEN annotate_trace(data, st, request_start_time)
    ELSE IF data.t = "list"
         THEN the({[el |-> PyList(r.el), st |-> r.st] :
                   r \in {handle_items(data.items, 1, st, request_start_time)}})
         ELSE [el |-> data, st |-> st]
RECURSIVE handle_loop(_, _, _, _)
\* for data in output_data, from element n on
handle_loop(elems, n, st, request_start_time) ==
    IF n > Len(elems) \/ st.err # "" THEN [el |-> elems, st |-> st]
    ELSE the({handle_loop([elems EXCEPT ![n] = r.el], n + 1, r.st, request_start_time) :
              r \in {handle_data(elems[n], st, request_start_time)}})
\* what iterating over a value yields: the elements of a list or a tuple; the
\* keys of a dict and the characters of a str are strings, which the loop skips
Iterable(v) == v.t \in {"list", "tuple", "dict", "str"}
handle_agent_feature_atomic(output_data, request_start_time, step_counter) ==
    IF ~Iterable(output_data)
    THEN [raised |-> "TypeError", output_data |-> output_data,
          step_counter |-> step_counter, log |-> <<>>]
    ELSE IF output_data.t \notin {"list", "tuple"}
    THEN [raised |-> "", output_data |-> output_data,
          step_counter |-> step_counter, log |-> <<>>]
    ELSE the({IF r.st.err # ""
              THEN [raised |-> r.st.err, output_data |-> output_data,
                    step_counter |-> step_counter, log |-> <<>>]
              ELSE [raised |-> "",
                    output_data |-> [output_data EXCEPT !.items = r.el],
                    step_counter |-> r.st.ctr,
                    log |-> r.st.log] :
              r \in {handle_loop(output_data.items, 1,
                                 [prev |-> None, ctr |-> step_counter,
                                  err |-> "", log |-> <<>>],
                                 request_start_time)}})
\* [raised: "" or the exception, output_data: the structure as mutated,
\*  step_counter: self.step_counter afterwards, log: the annotations written]
handle_agent_feature(output_data, request_start_time, step_counter) ==
    IF ~Iterable(output_data)
    THEN [raised |-> "TypeError", output_data |-> output_data,
          step_counter |-> step_counter, log |-> <<>>]
    ELSE IF output_data.t \notin {"list", "tuple"}
    THEN [raised |-> "", output_data |-> output_data,
          step_counter |-> step_counter, log |-> <<>>]
    ELSE the({[raised |-> r.st.err,
               output_data |-> [output_data EXCEPT !.items = r.el],
               step_counter |-> r.st.ctr,
               log |-> r.st.log] :
              r \in {handle_loop(output_data.items, 1,
                                 [prev |-> None, ctr |-> step_counter,
                                  err |-> "", log |-> <<>>],
                                 request_start_time)}})

(***************************************************************************)
(* json.dumps and json.loads.  A JSON text is the tree it denotes: dumps   *)
(* writes a tuple as an array, like a list, and loads reads every array as *)
(* a list.  A value of no JSON type (an opaque object, such as a response  *)
(* stream) makes dumps raise TypeError.                                    *)
(***************************************************************************)
RECURSIVE json_serializable(_)
json_serializable(v) ==
    CASE v.t \in {"none", "int", "float", "str", "bool"} -> TRUE
      [] v.t \in {"list", "tuple"} ->
            \A n \in 1..Len(v.items) : json_serializable(v.items[n])
      [] v.t = "dict" -> \A n \in 1..Len(v.kv) : json_serializable(v.kv[n].v)
      [] OTHER -> FALSE
RECURSIVE json_dumps(_)
json_dumps(v) ==
    CASE v.t = "none" -> [j |-> "null"]
      [] v.t = "int" -> [j |-> "number", int |-> v.i]
      [] v.t = "float" -> [j |-> "number", frac |-> v.f]
      [] v.t = "str" -> [j |-> "string", chars |-> v]
      [] v.t = "bool" -> [j |-> "bool", b |-> v.b]
      [] v.t \in {"list", "tuple"} ->
            [j |-> "array", elems |-> [n \in 1..Len(v.items) |-> json_dumps(v.items[n])]]
      [] v.t = "dict" ->
            [j |-> "object",
             members |-> [n \in 1..Len(v.kv) |->
                            [name |-> v.kv[n].k, val |-> json_dumps(v.kv[n].v)]]]
RECURSIVE json_loads(_)
json_loads(doc) ==
    CASE doc.j = "null" -> None
      [] doc.j = "number" ->
            IF "int" \in DOMAIN doc THEN PyInt(doc.int) ELSE PyFloat(doc.frac)
      [] doc.j = "string" -> doc.chars
      [] doc.j = "bool" -> PyBool(doc.b)
      [] doc.j = "array" ->
            PyList([n \in 1..Len(doc.elems) |-> json_loads(doc.elems[n])])
      [] doc.j = "object" ->
            PyDict([n \in 1..Len(doc.members) |->
                      Item(doc.members[n].name, json_loads(doc.members[n].val))])

(***************************************************************************)
(* State.                                                                  *)
(***************************************************************************)
VARIABLES
    self,             \* the recorder object, or NoObject before construction
    cons,             \* the last constructor call: its arguments and outcome
    buckets,          \* S3: the names of the buckets the recorder has created
    s3_objects,       \* S3: the stored objects, [Bucket, Key, Body]
    firehose_count,   \* Firehose: the number of records accepted
    now,              \* the wall clock, in ticks
    uuid_n,           \* the number of identifiers uuid4() has produced
    call,             \* the last wrapper invocation: its inputs and outcome
    ncalls,           \* the number of wrapper invocations so far
    steps,            \* every step_number written so far, in writing order
    fresh_ids,        \* the run ids minted so far because no key matched
    finder,           \* a direct call of find_keys: its arguments and result
    threads           \* the threads running the annotator on the shared recorder

vars == <<self, cons, buckets, s3_objects, firehose_count, now, uuid_n, call,
          ncalls, steps, fresh_ids, finder, threads>>

NoObject == [t |-> "none"]
NoCall == [kind |-> "none"]

(***************************************************************************)
(* BedrockLogs.__init__                                                    *)
(***************************************************************************)
VALID_FEATURE_NAMES == {PyStr("None"), PyStr("Agent"), PyStr("KB"), PyStr("InvokeModel")}
DefaultExperimentId == PyStr("default_experiment_1")
DefaultCallType == PyStr("LLM")
DefaultRegion == PyStr("us-east-1")

\* ensure_bucket_exists: the S3 operations it performs and how it ends, given
\* what head_bucket answers ("ok", or the ClientError's code)
ensure_bucket_exists(bucket_name, aws_region, head) ==
    IF head = "ok"
    THEN [raised |-> "", ops |-> <<[op |-> "head_bucket", Bucket |-> bucket_name]>>,
          created |-> FALSE]
    ELSE IF head = "404"
    THEN [raised |-> "",
          ops |-> <<[op |-> "head_bucket", Bucket |-> bucket_name],
                    [op |-> "create_bucket", Bucket |-> bucket_name,
                     LocationConstraint |->
                        IF aws_region = DefaultRegion THEN None ELSE aws_region]>>,
          created |-> TRUE]
    ELSE [raised |-> "Exception",
          ops |-> <<[op |-> "head_bucket", Bucket |-> bucket_name]>>,
          created |-> FALSE]

\* [raised: "" or the exception, obj: the object built, ops: the sink clients
\*  created and the S3 operations performed, in order]
feature_name_unchecked(feature_name) == FALSE
\* the check of the feature label against VALID_FEATURE_NAMES
feature_name_rejected(feature_name) ==
    feature_name # None /\ feature_name \notin VALID_FEATURE_NAMES
\* the check that a bucket name was given
bucket_name_missing(delivery_stream_name, s3_bucket_name) ==
    s3_bucket_name = None
init(a, head) ==
    IF feature_name_rejected(a.feature_name)
    THEN [raised |-> "ValueError:feature_name", obj |-> NoObject, ops |-> <<>>]
    ELSE IF a.delivery_stream_name = None
    THEN [raised |-> "ValueError:delivery_stream_name", obj |-> NoObject, ops |-> <<>>]
    ELSE IF bucket_name_missing(a.delivery_stream_name, a.s3_bucket_name)
    THEN [raised |-> "ValueError:s3_bucket_name", obj |-> NoObject, ops |-> <<>>]
    ELSE LET obj == [t |-> "BedrockLogs",
                     delivery_stream_name |-> a.delivery_stream_name,
                     experiment_id |-> IF a.experiment_id = None
                                       THEN DefaultExperimentId
                                       ELSE a.experiment_id,
                     default_call_type |-> DefaultCallType,
                     feedback_variables |-> a.feedback_variables,
                     s3_bucket_name |-> a.s3_bucket_name,
                     s3_region |-> a.s3_region,
                     feature_name |-> a.feature_name,
                     step_counter |-> 0,
                     request_start_time |-> None]
         IN  IF a.delivery_stream_name = PyStr("local")
             THEN [raised |-> "", obj |-> obj, ops |-> <<>>]
             ELSE IF a.delivery_stream_name = PyStr("s3")
             THEN LET e == ensure_bucket_exists(a.s3_bucket_name, a.s3_region, head)
                  IN  [raised |-> e.raised,
                       obj |-> IF e.raised = "" THEN obj ELSE NoObject,
                       ops |-> <<[op |-> "client", service |-> "s3"]>> \o e.ops]
             ELSE [raised |-> "", obj |-> obj,
                   ops |-> <<[op |-> "client", service |-> "firehose"]>>]

(***************************************************************************)
(* The wrapper that watch(capture_input, capture_output, call_type)        *)
(* returns around a target function.                                       *)
(***************************************************************************)
TicksPerSecond == 2
\* datetime.isoformat() of the instant at tick n
isoformat(n) == [t |-> "str", iso |-> n]
strftime_ticks(n) == n
\* datetime.now().strftime("%Y-%m-%d_%H-%M-%S"): the instant cut to whole seconds
strftime_seconds(n) == n \div TicksPerSecond
\* f"logs/{experiment_id}/{timestamp}_log.json"
object_key(experiment_id, timestamp) ==
    [dir |-> "logs", experiment_id |-> experiment_id, timestamp |-> timestamp,
     suffix |-> "_log.json"]
\* kwargs.get(name, {})
kwargs_get(kwargs, name) ==
    IF HasKey(kwargs, name) THEN DictGet(kwargs, name) ELSE PyDict(<<>>)
NoRecord == [t |-> "absent"]

save_log_to_s3_retrying(obj, metadata, key, sink_ok) ==
    IF ~json_serializable(metadata)
    THEN [raised |-> "Exception:Failed to save log to S3", cause |-> "TypeError",
          io |-> <<>>]
    ELSE IF sink_ok
    THEN [raised |-> "", cause |-> "",
          io |-> <<[op |-> "put_object", Bucket |-> obj.s3_bucket_name, Key |-> key,
                    Body |-> json_dumps(metadata), ok |-> TRUE]>>]
    ELSE [raised |-> "Exception:Failed to save log to S3", cause |-> "ClientError",
          io |-> <<[op |-> "put_object", Bucket |-> obj.s3_bucket_name, Key |-> key,
                    Body |-> json_dumps(metadata), ok |-> FALSE],
                   [op |-> "put_object", Bucket |-> obj.s3_bucket_name, Key |-> key,
                    Body |-> json_dumps(metadata), ok |-> FALSE]>>]
\* save_log_to_s3: the put_object attempted (if dumps got that far) and how it
\* ends; the except clause wraps what was raised (the cause) in one Exception
save_log_to_s3(obj, metadata, key, sink_ok) ==
    IF ~json_serializable(metadata)
    THEN [raised |-> "Exception:Failed to save log to S3", cause |-> "TypeError",
          io |-> <<>>]
    ELSE [raised |-> IF sink_ok THEN "" ELSE "Exception:Failed to save log to S3",
          cause |-> IF sink_ok THEN "" ELSE "ClientError",
          io |-> <<[op |-> "put_object", Bucket |-> obj.s3_bucket_name, Key |-> key,
                    Body |-> json_dumps(metadata), ok |-> sink_ok]>>]

\* output_data[0]
first_element_or_none(output_data) ==
    IF output_data.t \in {"list", "tuple"}
    THEN IF Len(output_data.items) = 0
         THEN [raised |-> "", value |-> None]
         ELSE [raised |-> "", value |-> output_data.items[1]]
    ELSE IF output_data.t = "dict"
    THEN [raised |-> "KeyError", value |-> None]
    ELSE [raised |-> "", value |-> output_data]
first_element(output_data) ==
    IF output_data.t \in {"list", "tuple"}
    THEN IF Len(output_data.items) = 0
         THEN [raised |-> "IndexError", value |-> None]
         ELSE [raised |-> "", value |-> output_data.items[1]]
    ELSE IF output_data.t = "dict"
    THEN [raised |-> "KeyError", value |-> None]
    ELSE [raised |-> "", value |-> output_data]

\* the dict literal of the base record
base_metadata(obj, w, run_id, observation_id, obs_timestamp, start_time, end_time, input_log, output_data) ==
    PyDict(<<Item("experiment_id", obj.experiment_id),
             Item("run_id", run_id),
             Item("observation_id", observation_id),
             Item("obs_timestamp", obs_timestamp),
             Item("start_time", isoformat(start_time)),
             Item("end_time", isoformat(end_time)),
             Item("duration", PyFloat(end_time - start_time)),
             Item("input_log", input_log),
             Item("output_log", output_data),
             Item("call_type", IF Truthy(w.call_type) THEN w.call_type
                               ELSE obj.default_call_type),
             Item("feature_name", obj.feature_name),
             Item("feedback_enabled", PyBool(obj.feedback_variables))>>)

merge_metadata_prompt_first(metadata, kwargs, logging_duration) ==
    LET input_data == kwargs_get(kwargs, "user_prompt")
        m1 == IF Truthy(input_data) THEN DictUpdate(metadata, input_data) ELSE metadata
        additional_metadata == kwargs_get(kwargs, "additional_metadata")
        m2 == IF Truthy(additional_metadata)
              THEN DictUpdate(m1, additional_metadata) ELSE m1
    IN  DictSet(m2, "logging_duration", PyFloat(logging_duration))
merge_metadata_duration_first(metadata, kwargs, logging_duration) ==
    LET m0 == DictSet(metadata, "logging_duration", PyFloat(logging_duration))
        additional_metadata == kwargs_get(kwargs, "additional_metadata")
        m1 == IF Truthy(additional_metadata)
              THEN DictUpdate(m0, additional_metadata) ELSE m0
        input_data == kwargs_get(kwargs, "user_prompt")
    IN  IF Truthy(input_data) THEN DictUpdate(m1, input_data) ELSE m1
\* the caller's mappings merged in, then logging_duration
merge_metadata(metadata, kwargs, logging_duration) ==
    LET additional_metadata == kwargs_get(kwargs, "additional_metadata")
        m1 == IF Truthy(additional_metadata)
              THEN DictUpdate(metadata, additional_metadata) ELSE metadata
        input_data == kwargs_get(kwargs, "user_prompt")
        m2 == IF Truthy(input_data) THEN DictUpdate(m1, input_data) ELSE m1
    IN  DictSet(m2, "logging_duration", PyFloat(logging_duration))

return_local_by_feedback(obj, result, metadata) ==
    IF obj.feedback_variables THEN PyTuple(<<result, metadata>>) ELSE result
return_firehose_ids_always(obj, result, run_id, observation_id) ==
    PyTuple(<<result, run_id, observation_id>>)
\* what the wrapper returns after each sink
return_local(obj, result, metadata) == PyTuple(<<result, metadata>>)
return_s3(obj, result, metadata) ==
    IF obj.feedback_variables THEN PyTuple(<<result, metadata>>) ELSE result
return_firehose(obj, result, run_id, observation_id) ==
    IF obj.feedback_variables
    THEN PyTuple(<<result, run_id, observation_id>>)
    ELSE result
\* the sink the record goes to, and what the wrapper returns
dispatch(obj, result, metadata, run_id, observation_id, clock, sink_ok) ==
    IF obj.delivery_stream_name = PyStr("local")
    THEN [raised |-> "", cause |-> "", io |-> <<>>,
          value |-> return_local(obj, result, metadata)]
    ELSE IF obj.delivery_stream_name = PyStr("s3")
    THEN LET timestamp == strftime_seconds(clock)
             key == object_key(obj.experiment_id, timestamp)
             s == save_log_to_s3(obj, metadata, key, sink_ok)
         IN  [raised |-> s.raised, cause |-> s.cause, io |-> s.io,
              value |-> IF s.raised # "" THEN None
                        ELSE return_s3(obj, result, metadata)]
    ELSE IF ~json_serializable(metadata)
    THEN [raised |-> "TypeError", cause |-> "", io |-> <<>>, value |-> None]
    ELSE [raised |-> IF sink_ok THEN "" ELSE "ClientError", cause |-> "",
          io |-> <<[op |-> "put_record",
                    DeliveryStreamName |-> obj.delivery_stream_name,
                    Data |-> json_dumps(metadata), ok |-> sink_ok]>>,
          value |-> IF ~sink_ok THEN None
                    ELSE return_firehose(obj, result, run_id, observation_id)]

resolves_from_any_output(obj, output_data) == output_data # None
\* whether the run id comes from the output: feature 'Agent' and an output
resolves_from_output(obj, output_data) ==
    obj.feature_name = PyStr("Agent") /\ output_data # None
\* the session id of the record: [raised, value, fresh, result (the target's
\* returned object, as annotated in place), output_data, step_counter, log]
resolve_run_id(obj, result, output_data, input_log, request_start_time, uuid) ==
    IF resolves_from_output(obj, output_data)
    THEN the({the({the({[raised |-> IF h.raised # "" THEN h.raised ELSE f.raised,
                         value |-> e.value,
                         fresh |-> h.raised = "" /\ f.raised = "" /\ e.fresh,
                         log_data |-> f.value,
                         result |-> h.output_data,
                         output_data |-> h.output_data,
                         step_counter |-> h.step_counter,
                         log |-> h.log] :
                        e \in {extract_session_id(obj.feature_name, f.value, uuid)}}) :
                   f \in {first_element(h.output_data)}}) :
              h \in {handle_agent_feature(output_data, request_start_time,
                                          obj.step_counter)}})
    ELSE LET e == extract_session_id(obj.feature_name, input_log, uuid)
         IN  [raised |-> "", value |-> e.value, fresh |-> e.fresh,
              log_data |-> input_log,
              result |-> result, output_data |-> output_data,
              step_counter |-> obj.step_counter, log |-> <<>>]

target_error_swallowed(target) == FALSE
\* result = func(*args, **kwargs): whether the call raises; nothing catches it
target_raises(target) == target.raises
\* One invocation of the wrapper on recorder obj.  w: the watch() arguments;
\* args, kwargs: the call's arguments; target: what the wrapped function does;
\* d: the ticks the target takes; sink_ok: whether the sink accepts a write.
inner(obj, w, args, kwargs, target, d, sink_ok, clock, uuid) ==
    LET request_start_time == clock
        input_data == IF w.capture_input THEN PyTuple(args) ELSE None
        input_log == IF Truthy(input_data) THEN input_data.items[1] ELSE None
        observation_id == uuid4(uuid)
        obs_timestamp == isoformat(clock)
        start_time == clock
        end_time == clock + d
        logging_start_time == end_time
        logging_end_time == end_time
    IN  IF target_raises(target)
        THEN [raised |-> "TargetError", cause |-> "", value |-> None, result |-> None,
              metadata |-> NoRecord, io |-> <<>>, log |-> <<>>, fresh |-> FALSE,
              run_id |-> None, log_data |-> None, observation_id |-> observation_id,
              step_counter |-> obj.step_counter, uuid_n |-> uuid + 1,
              request_start_time |-> request_start_time, clock |-> clock + d]
        ELSE
        LET result == target.result
            output_data == IF w.capture_output THEN result ELSE None
        IN  the({
            IF r.raised # ""
            THEN [raised |-> r.raised, cause |-> "", value |-> None, result |-> r.result,
                  metadata |-> NoRecord, io |-> <<>>, log |-> r.log, fresh |-> FALSE,
                  run_id |-> None, log_data |-> None, observation_id |-> observation_id,
                  step_counter |-> r.step_counter, uuid_n |-> uuid + 1,
                  request_start_time |-> request_start_time, clock |-> end_time]
            ELSE
            the({the({
                [raised |-> s.raised, cause |-> s.cause, value |-> s.value,
                 result |-> r.result,
                 metadata |-> metadata, io |-> s.io, log |-> r.log, fresh |-> r.fresh,
                 run_id |-> r.value, log_data |-> r.log_data,
                 observation_id |-> observation_id,
                 step_counter |-> r.step_counter,
                 uuid_n |-> IF r.fresh THEN uuid + 2 ELSE uuid + 1,
                 request_start_time |-> request_start_time, clock |-> end_time] :
                s \in {dispatch(obj, r.result, metadata, r.value, observation_id,
                                end_time, sink_ok)}}) :
                metadata \in {merge_metadata(
                                  base_metadata(obj, w, r.value, observation_id,
                                                obs_timestamp, start_time, end_time,
                                                input_log, r.output_data),
                                  kwargs, logging_end_time - logging_start_time)}}) :
            r \in {resolve_run_id(obj, result, output_data, input_log,
                                  request_start_time, uuid + 1)}})

(***************************************************************************)
(* The inputs the environment supplies.                                    *)
(***************************************************************************)
MaxCalls == 2
MaxDuration == 1

DeliveryNames == {None, PyStr("local"), PyStr("s3"), PyStr("obs-stream")}
FeatureNames == {None, PyStr("None"), PyStr("Agent"), PyStr("KB"),
                 PyStr("InvokeModel"), PyStr("Bogus")}
BucketNames == {None, PyStr("logging-response")}
ExperimentIds == {None}
Regions == {DefaultRegion, PyStr("eu-west-1")}
\* the constructor calls made: every target, label and bucket; the second
\* region with the S3 sink only, the labels that only name the feature with
\* the local sink only
ConstructorArgs ==
    {a \in [delivery_stream_name : DeliveryNames, experiment_id : ExperimentIds,
            feature_name : FeatureNames, feedback_variables : BOOLEAN,
            s3_bucket_name : BucketNames, s3_region : Regions] :
        /\ a.s3_region # DefaultRegion =>
              a.delivery_stream_name = PyStr("s3") /\ a.feature_name = None
        /\ a.feature_name \in {PyStr("None"), PyStr("KB"), PyStr("InvokeModel")} =>
              a.delivery_stream_name \in {None, PyStr("local")}
        /\ a.feature_name \in {PyStr("None"), PyStr("KB"), PyStr("InvokeModel")} =>
              ~a.feedback_variables}

\* payloads passed as the first positional argument
SessionPayload ==
    PyDict(<<Item("body", PyList(<<PyDict(<<Item("sessionId", PyStr("deep"))>>)>>)),
             Item("sessionId", PyStr("top")),
             Item("x-amz-bedrock-agent-session-id", PyStr("agent-in"))>>)
TuplePayload == PyTuple(<<PyDict(<<Item("sessionId", PyStr("in-tuple"))>>)>>)
\* mappings passed as additional_metadata and user_prompt
ExtraFields ==
    PyDict(<<Item("tag", PyStr("a")), Item("run_id", PyStr("forced")),
             Item("observation_id", PyStr("obs-forced")), Item("team", PyStr("nlp"))>>)
PromptFields ==
    PyDict(<<Item("tag", PyStr("b")), Item("input_log", PyStr("prompt")),
             Item("logging_duration", PyStr("slow"))>>)
\* trace nodes and the outputs of an agent-style target
TraceNode(stt) == PyDict(<<Item("start_trace_time", stt)>>)
Traced(stt) == PyDict(<<Item("trace", TraceNode(stt))>>)
SessionTraced(stt) ==
    PyDict(<<Item("trace",
                  PyDict(<<Item("start_trace_time", stt),
                           Item("x-amz-bedrock-agent-session-id", PyStr("agent-out"))>>))>>)
Chunk == PyDict(<<Item("chunk", PyStr("text"))>>)
AgentOutputOk ==
    PyList(<<SessionTraced(PyFloat(1)),
             PyList(<<TraceNode(PyFloat(3)), Chunk, Traced(PyFloat(4))>>)>>)
AgentOutputBad ==
    PyList(<<Traced(PyFloat(2)), PyList(<<TraceNode(PyStr("12:00:01"))>>)>>)
AgentOutputEmpty == PyList(<<>>)
\* start_trace_time on a top-level mapping itself, and on a sequence element
\* together with a 'trace' that carries one too
AgentOutputFlat ==
    PyList(<<TraceNode(PyFloat(1)),
             PyList(<<PyDict(<<Item("start_trace_time", PyFloat(2)),
                               Item("trace", TraceNode(PyFloat(3)))>>)>>)>>)
Opaque == [t |-> "object", name |-> "EventStream"]

Returns(v) == [raises |-> FALSE, result |-> v]
Raises == [raises |-> TRUE, result |-> None]
CallInput(ci, co, ct, args, kwargs, target) ==
    [w |-> [capture_input |-> ci, capture_output |-> co, call_type |-> ct],
     args |-> args, kwargs |-> kwargs, target |-> target]
NoKwargs == PyDict(<<>>)

\* what the capture flags and the arguments do
CaptureInputs ==
    {CallInput(ci, co, None, args, NoKwargs, Returns(PyInt(10))) :
        ci \in BOOLEAN, co \in BOOLEAN,
        args \in {<<>>, <<PyInt(5), PyInt(6)>>, <<SessionPayload>>}}
    \cup {CallInput(TRUE, TRUE, None, args, NoKwargs, target) :
            args \in {<<PyInt(5), PyInt(6)>>, <<TuplePayload>>},
            target \in {Returns(None), Raises}}
\* what the caller's extra mappings and the call type do
MergeInputs ==
    {CallInput(TRUE, TRUE, None, <<PyInt(5), PyInt(6)>>, kwargs, Returns(PyInt(10))) :
        kwargs \in {PyDict(<<Item("additional_metadata", ExtraFields)>>),
                    PyDict(<<Item("user_prompt", PromptFields)>>),
                    PyDict(<<Item("additional_metadata", ExtraFields),
                             Item("user_prompt", PromptFields)>>)}}
    \cup {CallInput(TRUE, TRUE, PyStr("Converse-API"), <<PyInt(5), PyInt(6)>>,
                    PyDict(<<Item("additional_metadata", ExtraFields),
                             Item("user_prompt", PromptFields)>>),
                    Returns(PyInt(10)))}
\* agent-style outputs
TraceInputs ==
    {CallInput(TRUE, TRUE, None, <<SessionPayload>>, NoKwargs, Returns(out)) :
        out \in {AgentOutputOk, AgentOutputBad, AgentOutputEmpty, AgentOutputFlat,
                 Opaque}}
    \cup {CallInput(TRUE, FALSE, None, <<SessionPayload>>, NoKwargs, Returns(AgentOutputOk))}
\* the calls made on a recorder with a remote sink
SinkInputs ==
    {CallInput(TRUE, TRUE, None, <<PyInt(5), PyInt(6)>>, NoKwargs, target) :
        target \in {Returns(PyInt(10)), Raises}}
    \cup {CallInput(TRUE, TRUE, None, <<TuplePayload>>, NoKwargs, Returns(PyInt(10)))}
    \cup {CallInput(TRUE, TRUE, None, <<SessionPayload>>, kwargs, Returns(AgentOutputOk)) :
            kwargs \in {NoKwargs, PyDict(<<Item("additional_metadata", ExtraFields)>>)}}
    \cup {CallInput(TRUE, TRUE, None, <<SessionPayload>>, NoKwargs, Returns(out)) :
            out \in {AgentOutputBad, Opaque}}
\* whether the sink accepts the write; the local sink writes nothing
SinkAnswers(obj) ==
    IF obj.delivery_stream_name = PyStr("local") THEN {TRUE} ELSE BOOLEAN
InputsFor(obj) ==
    IF obj.delivery_stream_name = PyStr("local")
    THEN CaptureInputs \cup MergeInputs \cup TraceInputs
    ELSE SinkInputs

(***************************************************************************)
(* Actions.                                                                *)
(***************************************************************************)
Init ==
    /\ self = NoObject
    /\ cons = NoCall
    /\ buckets = {}
    /\ s3_objects = {}
    /\ firehose_count = 0
    /\ now = 0
    /\ uuid_n = 0
    /\ call = NoCall
    /\ ncalls = 0
    /\ steps = <<>>
    /\ fresh_ids = {}
    /\ finder = NoCall
    /\ threads = <<>>

\* what head_bucket answers: the bucket exists, or the ClientError's code
HeadAnswers == {"ok", "404", "403"}
\* BedrockLogs(...): one constructor call
Construct ==
    /\ self = NoObject
    /\ \E a \in ConstructorArgs, head \in HeadAnswers :
         LET r == init(a, head)
         IN  /\ self' = r.obj
             /\ cons' = [kind |-> "init", args |-> a, raised |-> r.raised, ops |-> r.ops,
                          buckets_before |-> buckets]
             /\ buckets' = IF r.raised = "" /\ \E n \in 1..Len(r.ops) :
                                                  r.ops[n].op = "create_bucket"
                           THEN buckets \cup {a.s3_bucket_name}
                           ELSE buckets
    /\ UNCHANGED <<s3_objects, firehose_count, now, uuid_n, call, ncalls, steps, fresh_ids,
                   finder, threads>>

\* S3 after put_object: the object under (Bucket, Key) is replaced
put_object_keep_both(objects, p) ==
    objects \cup {[Bucket |-> p.Bucket, Key |-> p.Key, Body |-> p.Body]}
put_object(objects, p) ==
    {o \in objects : ~(o.Bucket = p.Bucket /\ o.Key = p.Key)}
        \cup {[Bucket |-> p.Bucket, Key |-> p.Key, Body |-> p.Body]}

\* one invocation of a wrapped function
Call ==
    /\ self # NoObject
    /\ ncalls < MaxCalls
    /\ \E in \in InputsFor(self), d \in 0..MaxDuration, sink_ok \in SinkAnswers(self) :
       \E o \in {inner(self, in.w, in.args, in.kwargs, in.target, d, sink_ok, now, uuid_n)} :
         LET puts == {n \in 1..Len(o.io) : o.io[n].op = "put_object" /\ o.io[n].ok}
             recs == {n \in 1..Len(o.io) : o.io[n].op = "put_record" /\ o.io[n].ok}
         IN  /\ self' = [self EXCEPT !.step_counter = o.step_counter,
                                     !.request_start_time = PyFloat(o.request_start_time)]
             /\ s3_objects' = IF puts = {} THEN s3_objects
                              ELSE put_object(s3_objects, o.io[CHOOSE n \in puts : TRUE])
             /\ firehose_count' = firehose_count + Cardinality(recs)
             /\ now' = o.clock
             /\ uuid_n' = o.uuid_n
             /\ steps' = steps \o [n \in 1..Len(o.log) |-> o.log[n].step_number]
             /\ fresh_ids' = IF o.fresh THEN fresh_ids \cup {o.run_id} ELSE fresh_ids
             /\ call' = [kind |-> "call", in |-> in, d |-> d, out |-> o,
                         before |-> [step_counter |-> self.step_counter,
                                     now |-> now,
                                     uuid_n |-> uuid_n,
                                     fresh_ids |-> fresh_ids,
                                     s3_objects |-> s3_objects,
                                     firehose_count |-> firehose_count]]
    /\ ncalls' = ncalls + 1
    /\ UNCHANGED <<cons, buckets, finder, threads>>

Next == Construct \/ Call

Spec == Init /\ [][Next]_vars

(***************************************************************************)
(* find_keys called directly on a tree.  The trees are all those of depth  *)
(* at most MaxDepth built from a leaf, mappings of at most two items,      *)
(* lists of at most two elements and one-element tuples; the first item of *)
(* a mapping and the last element of a sequence hold any smaller tree.     *)
(***************************************************************************)
MaxDepth == 2
Keys == {"k", "a"}
Leaf == PyInt(1)
\* the values of a mapping's second item
Siblings == {Leaf, PyDict(<<Item("k", Leaf)>>)}
RECURSIVE Trees(_)
Trees(n) ==
    IF n = 0 THEN {Leaf}
    ELSE LET sub == Trees(n - 1)
         IN  {Leaf, PyDict(<<>>), PyList(<<>>)}
             \cup {PyDict(<<Item(k, t)>>) : k \in Keys, t \in sub}
             \cup {PyDict(<<Item("k", t), Item("a", u)>>) : t \in sub, u \in Siblings}
             \cup {PyDict(<<Item("a", t), Item("k", u)>>) : t \in sub, u \in Siblings}
             \cup {PyList(<<t>>) : t \in sub}
             \cup {PyList(<<Leaf, t>>) : t \in sub}
             \cup {PyTuple(<<t>>) : t \in sub}

InitFinder ==
    /\ self = NoObject
    /\ cons = NoCall
    /\ buckets = {}
    /\ s3_objects = {}
    /\ firehose_count = 0
    /\ now = 0
    /\ uuid_n = 0
    /\ call = NoCall
    /\ ncalls = 0
    /\ steps = <<>>
    /\ fresh_ids = {}
    /\ threads = <<>>
    /\ \E tree \in Trees(MaxDepth), key \in Keys :
          finder = [kind |-> "args", dictionary |-> tree, key |-> key]

\* BedrockLogs.find_keys(dictionary, key)
FindKeys ==
    /\ finder.kind = "args"
    /\ finder' = [kind |-> "find_keys", dictionary |-> finder.dictionary,
                  key |-> finder.key,
                  results |-> find_keys(finder.dictionary, finder.key, <<>>)]
    /\ UNCHANGED <<self, cons, buckets, s3_objects, firehose_count, now, uuid_n, call,
                   ncalls, steps, fresh_ids, threads>>

NextFinder == FindKeys

SpecFinder == InitFinder /\ [][NextFinder]_vars

(***************************************************************************)
(* Two threads call wrappers of one 'Agent' recorder, each on an output of *)
(* NodesPerCall qualifying nodes.  Per node the annotator runs             *)
(*     node['step_number'] = self.step_counter                             *)
(*     self.step_counter += 1                                              *)
(* and the second statement reads the attribute, adds, and writes it back: *)
(* another thread can run between any two of these three steps.  Of a      *)
(* thread: pc is its position, todo the nodes it has left, loaded the      *)
(* value it read for the increment.  overlapped records that a thread      *)
(* entered the annotator while another was inside it.                      *)
(***************************************************************************)
NodesPerCall == 2
Threads == {1, 2}
RaceArgs ==
    [delivery_stream_name |-> PyStr("local"), experiment_id |-> None,
     feature_name |-> PyStr("Agent"), feedback_variables |-> FALSE,
     s3_bucket_name |-> PyStr("logging-response"), s3_region |-> DefaultRegion]
Inside(t) == threads.pc[t] \in {"assign", "load", "store"}

InitRace ==
    /\ self = init(RaceArgs, "ok").obj
    /\ cons = NoCall
    /\ buckets = {}
    /\ s3_objects = {}
    /\ firehose_count = 0
    /\ now = 0
    /\ uuid_n = 0
    /\ call = NoCall
    /\ ncalls = 0
    /\ steps = <<>>
    /\ fresh_ids = {}
    /\ finder = NoCall
    /\ threads = [pc |-> [t \in Threads |-> "idle"],
                  todo |-> [t \in Threads |-> NodesPerCall],
                  loaded |-> [t \in Threads |-> 0],
                  overlapped |-> FALSE]

\* no constructor call, wrapper invocation or sink operation takes place
OnlyThreadsRun ==
    UNCHANGED <<cons, buckets, s3_objects, firehose_count, now, uuid_n, call, ncalls,
                fresh_ids, finder>>

\* thread t calls handle_agent_feature
Enter(t) ==
    /\ threads.pc[t] = "idle"
    /\ threads' = [threads EXCEPT !.pc[t] = "assign",
                                  !.overlapped = @ \/ \E u \in Threads \ {t} : Inside(u)]
    /\ UNCHANGED <<self, steps>>
    /\ OnlyThreadsRun

\* node['step_number'] = self.step_counter
AssignStepNumber(t) ==
    /\ threads.pc[t] = "assign"
    /\ steps' = Append(steps, self.step_counter)
    /\ threads' = [threads EXCEPT !.pc[t] = "load", !.todo[t] = @ - 1]
    /\ UNCHANGED self
    /\ OnlyThreadsRun

\* self.step_counter += 1: the read of the attribute
LoadCounter(t) ==
    /\ threads.pc[t] = "load"
    /\ threads' = [threads EXCEPT !.pc[t] = "store", !.loaded[t] = self.step_counter]
    /\ UNCHANGED <<self, steps>>
    /\ OnlyThreadsRun

\* self.step_counter += 1: the write of the sum; then the next node, or return
StoreCounter(t) ==
    /\ threads.pc[t] = "store"
    /\ self' = [self EXCEPT !.step_counter = next_step(threads.loaded[t])]
    /\ threads' = [threads EXCEPT !.pc[t] = IF threads.todo[t] > 0 THEN "assign"
                                            ELSE "done"]
    /\ UNCHANGED steps
    /\ OnlyThreadsRun

NextRace ==
    \E t \in Threads :
        Enter(t) \/ AssignStepNumber(t) \/ LoadCounter(t) \/ StoreCounter(t)

SpecRace == InitRace /\ [][NextRace]_vars

(***************************************************************************)
(* Invocations of the wrapper that overlap on one recorder: a second one   *)
(* starts, from another thread or from inside the target, while the first  *)
(* is still in its target.  Each invocation is cut at the call of the      *)
(* target: the part before it writes self.request_start_time, the part     *)
(* after it reads the attribute for the annotator.                         *)
(***************************************************************************)
MaxClock == 3
Invocations == {1, 2}
request_start_time_of_invocation(obj, started) == started
\* self.request_start_time, as the wrapper reads it when the target is back
request_start_time_read(obj, started) == Num(obj.request_start_time)
\* what the target returns: two traced events, the first stamped at instant n
TargetOutput(n) == PyList(<<Traced(PyFloat(n)), Traced(PyFloat(n + 1))>>)

InitOverlap ==
    /\ self = init(RaceArgs, "ok").obj
    /\ cons = NoCall
    /\ buckets = {}
    /\ s3_objects = {}
    /\ firehose_count = 0
    /\ now = 0
    /\ uuid_n = 0
    /\ call = NoCall
    /\ ncalls = 0
    /\ steps = <<>>
    /\ fresh_ids = {}
    /\ finder = NoCall
    /\ threads = [pc |-> [i \in Invocations |-> "idle"],
                  started |-> [i \in Invocations |-> 0],
                  latest |-> 0,
                  seen |-> [i \in Invocations |-> 0],
                  returned |-> [i \in Invocations |-> None],
                  output |-> [i \in Invocations |-> None]]

\* no constructor call, recorded invocation or sink operation takes place
OnlyInvocationsRun ==
    UNCHANGED <<cons, buckets, s3_objects, firehose_count, uuid_n, call, ncalls,
                fresh_ids, finder>>

\* time.time() moves on
Tick ==
    /\ now < MaxClock
    /\ now' = now + 1
    /\ UNCHANGED <<self, steps, threads>>
    /\ OnlyInvocationsRun

\* inner() up to the call of the target: self.request_start_time = time.time()
Start(i) ==
    /\ threads.pc[i] = "idle"
    /\ self' = [self EXCEPT !.request_start_time = PyFloat(now)]
    /\ threads' = [threads EXCEPT !.pc[i] = "in target", !.started[i] = now,
                                  !.latest = i]
    /\ UNCHANGED <<now, steps>>
    /\ OnlyInvocationsRun

\* the target returns; the wrapper hands its output and self.request_start_time
\* to the annotator
Annotate(i) ==
    /\ threads.pc[i] = "in target"
    /\ \E h \in {handle_agent_feature(TargetOutput(now),
                                       request_start_time_read(self, threads.started[i]),
                                       self.step_counter)} :
          /\ self' = [self EXCEPT !.step_counter = h.step_counter]
          /\ steps' = steps \o [n \in 1..Len(h.log) |-> h.log[n].step_number]
          /\ threads' = [threads EXCEPT !.pc[i] = "done",
                                        !.seen[i] = threads.latest,
                                        !.returned[i] = TargetOutput(now),
                                        !.output[i] = h.output_data]
    /\ UNCHANGED now
    /\ OnlyInvocationsRun

NextOverlap == Tick \/ \E i \in Invocations : Start(i) \/ Annotate(i)

SpecOverlap == InitOverlap /\ [][NextOverlap]_vars

(***************************************************************************)
(* Auxiliary definitions for the properties.                               *)
(***************************************************************************)
RECURSIVE Flatten(_)
Flatten(ss) == IF Len(ss) = 0 THEN <<>> ELSE Head(ss) \o Flatten(Tail(ss))
\* The nodes of an output that the annotator is to annotate, in traversal
\* order: a top-level mapping's 'trace', an element of a top-level sequence
\* that carries start_trace_time, or else such an element's 'trace'.
TraceOf(m) ==
    IF HasKey(m, "trace") /\ HasKey(DictGet(m, "trace"), "start_trace_time")
    THEN <<DictGet(m, "trace")>> ELSE <<>>
ItemNodes(item) ==
    IF HasKey(item, "start_trace_time") THEN <<item>> ELSE TraceOf(item)
ElementNodes(data) ==
    IF HasKey(data, "trace") THEN TraceOf(data)
    ELSE IF data.t = "list"
         THEN Flatten([n \in 1..Len(data.items) |-> ItemNodes(data.items[n])])
         ELSE <<>>
QualifyingNodes(output) ==
    IF output.t \in {"list", "tuple"}
    THEN Flatten([n \in 1..Len(output.items) |-> ElementNodes(output.items[n])])
    ELSE <<>>
StartOf(node) == DictGet(node, "start_trace_time")

Called == call.kind = "call"
TargetReturned == Called /\ ~call.in.target.raises
Sink(name) == self # NoObject /\ self.delivery_stream_name = PyStr(name)
RemoteSink == self # NoObject /\ self.delivery_stream_name # PyStr("local")
IsAgent == self # NoObject /\ self.feature_name = PyStr("Agent")
\* the annotator ran on the call's output
AnnotatorRan ==
    /\ TargetReturned /\ IsAgent
    /\ call.in.w.capture_output /\ call.in.target.result # None
\* the annotator and the read of the first output element cannot fail
AnnotationSound ==
    AnnotatorRan =>
        /\ call.in.target.result.t \in {"list", "tuple"}
        /\ Len(call.in.target.result.items) > 0
        /\ \A n \in 1..Len(QualifyingNodes(call.in.target.result)) :
              StartOf(QualifyingNodes(call.in.target.result)[n]).t = "float"
NoSinkIO ==
    /\ call.out.io = <<>>
    /\ s3_objects = call.before.s3_objects
    /\ firehose_count = call.before.firehose_count
CallerFields(name) == kwargs_get(call.in.kwargs, name)
CallerSets(field) ==
    \/ HasKey(CallerFields("additional_metadata"), field)
    \/ HasKey(CallerFields("user_prompt"), field)
CapturesBoth == call.in.w.capture_input /\ call.in.w.capture_output

(***************************************************************************)
(* C1 (as stated): with the local sink, every invocation whose target      *)
(* returns normally returns (result, metadata) whatever the feedback flag  *)
(* is and performs no sink I/O; with both captures enabled, input_log is   *)
(* the first positional argument and output_log the target's result.       *)
(***************************************************************************)
C1_LocalAlwaysReturnsPair ==
    (TargetReturned /\ Sink("local")) =>
        /\ call.out.raised = ""
        /\ call.out.value = PyTuple(<<call.out.result, call.out.metadata>>)
        /\ NoSinkIO
        /\ (CapturesBoth /\ Len(call.in.args) > 0) =>
              /\ DictGet(call.out.metadata, "input_log") = call.in.args[1]
              /\ DictGet(call.out.metadata, "output_log") = call.out.result

(***************************************************************************)
(* C1 (amended): with the local sink, every invocation whose target        *)
(* returns normally and whose 'Agent' annotation cannot fail (the captured *)
(* output is a non-empty sequence whose qualifying nodes all carry a float *)
(* start_trace_time) returns (result, metadata) whatever the feedback flag *)
(* is and performs no sink I/O; with both captures enabled, input_log is   *)
(* the first positional argument (None when there is none) and output_log  *)
(* is the target's result, unless a caller-supplied mapping sets that      *)
(* field.                                                                  *)
(***************************************************************************)
C1_LocalReturnsPair ==
    (TargetReturned /\ Sink("local") /\ AnnotationSound) =>
        /\ call.out.raised = ""
        /\ call.out.value = PyTuple(<<call.out.result, call.out.metadata>>)
        /\ NoSinkIO
        /\ (CapturesBoth /\ ~CallerSets("input_log")) =>
              DictGet(call.out.metadata, "input_log") =
                  IF Len(call.in.args) > 0 THEN call.in.args[1] ELSE None
        /\ (CapturesBoth /\ ~CallerSets("output_log")) =>
              DictGet(call.out.metadata, "output_log") = call.out.result
        /\ ~AnnotatorRan => call.out.result = call.in.target.result
C1_Witness ==
    /\ TargetReturned /\ Sink("local") /\ ~self.feedback_variables
    /\ CapturesBoth /\ call.in.args = <<PyInt(5), PyInt(6)>>
    /\ call.in.target.result = PyInt(10)
    /\ call.out.value = PyTuple(<<PyInt(10), call.out.metadata>>)
    /\ DictGet(call.out.metadata, "input_log") = PyInt(5)
    /\ DictGet(call.out.metadata, "output_log") = PyInt(10)

(***************************************************************************)
(* C2: a bucket name is required if and only if the delivery target is S3: *)
(* with 'local' or a stream name and no bucket name the constructor        *)
(* succeeds, with 's3' and no bucket name it raises a configuration error. *)
(***************************************************************************)
C2_BucketRequiredIffS3 ==
    (/\ cons.kind = "init"
     /\ cons.args.feature_name \in VALID_FEATURE_NAMES \cup {None}
     /\ cons.args.delivery_stream_name # None
     /\ cons.args.s3_bucket_name = None) =>
        IF cons.args.delivery_stream_name = PyStr("s3")
        THEN cons.raised = "ValueError:s3_bucket_name"
        ELSE cons.raised = "" /\ self # NoObject

(***************************************************************************)
(* C3: the step counter never decreases and is never reset; the step       *)
(* numbers written, in writing order over all calls, are 0, 1, 2, ...; a   *)
(* call that starts with counter n writes n, n+1, ...; after each call the *)
(* counter is the number of nodes annotated so far.                        *)
(***************************************************************************)
C3_StepCounter ==
    /\ steps = [n \in 1..Len(steps) |-> n - 1]
    /\ self # NoObject => self.step_counter = Len(steps)
    /\ Called =>
          /\ call.out.step_counter >= call.before.step_counter
          /\ self.step_counter = call.out.step_counter
          /\ call.out.step_counter = call.before.step_counter + Len(call.out.log)
          /\ \A n \in 1..Len(call.out.log) :
                call.out.log[n].step_number = call.before.step_counter + n - 1
          /\ (AnnotatorRan /\ call.out.raised = "") =>
                LET q == QualifyingNodes(call.out.result)
                IN  /\ Len(q) = Len(call.out.log)
                    /\ \A n \in 1..Len(q) :
                          DictGet(q[n], "step_number") =
                              PyInt(call.before.step_counter + n - 1)
C3_Witness ==
    /\ Called /\ ncalls = 2 /\ call.before.step_counter = 3
    /\ Len(call.out.log) = 3 /\ self.step_counter = 6
    /\ steps = <<0, 1, 2, 3, 4, 5>>

(***************************************************************************)
(* C4: within one annotator run the first qualifying node's latency is its *)
(* start_trace_time minus the call's start time and every later node's is  *)
(* its start_trace_time minus the previous qualifying node's, whether the  *)
(* nodes are top-level mappings or inside sequences; the previous node is  *)
(* not carried over from an earlier call.                                  *)
(***************************************************************************)
C4_Latency ==
    AnnotatorRan =>
        /\ \A n \in 1..Len(call.out.log) :
              call.out.log[n].latency =
                  call.out.log[n].start_trace_time -
                      (IF n = 1 THEN call.before.now
                       ELSE call.out.log[n - 1].start_trace_time)
        /\ call.out.raised = "" =>
              LET q == QualifyingNodes(call.out.result)
              IN  \A n \in 1..Len(q) :
                      DictGet(q[n], "latency") =
                          PyFloat(StartOf(q[n]).f -
                                  (IF n = 1 THEN call.before.now
                                   ELSE StartOf(q[n - 1]).f))
C4_Witness ==
    /\ AnnotatorRan /\ ncalls = 2 /\ call.before.step_counter = 3
    /\ call.before.now = 1 /\ call.out.raised = ""
    /\ Len(QualifyingNodes(call.out.result)) = 3
    /\ [n \in 1..3 |-> DictGet(QualifyingNodes(call.out.result)[n], "latency")]
          = <<PyFloat(0), PyFloat(2), PyFloat(1)>>

(***************************************************************************)
(* C5: with feature 'Agent' and the output captured, a qualifying node     *)
(* whose start_trace_time is not a float makes the invocation fail with a  *)
(* validation error: no record goes to any sink and the target's result is *)
(* not returned.                                                           *)
(***************************************************************************)
C5_ValidationError ==
    (/\ AnnotatorRan
     /\ \E n \in 1..Len(QualifyingNodes(call.in.target.result)) :
           StartOf(QualifyingNodes(call.in.target.result)[n]).t # "float") =>
        /\ call.out.raised = "ValueError"
        /\ call.out.value = None
        /\ call.out.metadata = NoRecord
        /\ NoSinkIO
C5_Witness ==
    /\ AnnotatorRan /\ RemoteSink
    /\ call.in.target.result = AgentOutputBad
    /\ call.out.raised = "ValueError"

(***************************************************************************)
(* C6: when the target raises, the same failure leaves the wrapper, no     *)
(* record is assembled or sent to any sink, and the step counter is        *)
(* unchanged.                                                              *)
(***************************************************************************)
C6_TargetErrorPropagates ==
    (Called /\ call.in.target.raises) =>
        /\ call.out.raised = "TargetError"
        /\ call.out.metadata = NoRecord
        /\ NoSinkIO
        /\ call.out.step_counter = call.before.step_counter
        /\ self.step_counter = call.before.step_counter
C6_Witness ==
    /\ Called /\ call.in.target.raises /\ IsAgent /\ RemoteSink
    /\ ncalls = 2 /\ call.before.step_counter = 3
    /\ call.out.raised = "TargetError"

(***************************************************************************)
(* C7: the resolver searches for 'x-amz-bedrock-agent-session-id' when the *)
(* feature is 'Agent' and for 'sessionId' otherwise; with one or more      *)
(* matches it returns the value of the first in depth-first order, with    *)
(* none a fresh identifier different from those of earlier no-match calls. *)
(***************************************************************************)
C7_SessionResolver ==
    (Called /\ call.out.metadata # NoRecord) =>
        LET key == IF IsAgent THEN "x-amz-bedrock-agent-session-id" ELSE "sessionId"
            matches == find_keys(call.out.log_data, key, <<>>)
        IN  /\ IF Len(matches) > 0
               THEN call.out.run_id = matches[1][2] /\ fresh_ids = call.before.fresh_ids
               ELSE /\ call.out.run_id.t = "str"
                    /\ call.out.run_id \notin call.before.fresh_ids
                    /\ call.out.run_id \in fresh_ids
            /\ call.out.log_data = SessionPayload =>
                  call.out.run_id = IF IsAgent THEN PyStr("agent-in") ELSE PyStr("deep")
            /\ (call.out.log_data # None /\ HasKey(call.out.log_data, "trace") /\ IsAgent) =>
                  call.out.run_id = PyStr("agent-out")
C7_Witness ==
    /\ Called /\ ncalls = 2 /\ call.out.metadata # NoRecord
    /\ call.out.log_data = None
    /\ Cardinality(fresh_ids) = 2
    /\ call.out.run_id \in fresh_ids \ call.before.fresh_ids

(***************************************************************************)
(* C8: after a successful dispatch the S3 sink returns (result, metadata)  *)
(* with feedback enabled and result alone otherwise; the Firehose sink     *)
(* returns (result, run id, observation id) with feedback enabled and      *)
(* result alone otherwise; the result is always the target's return value. *)
(***************************************************************************)
C8_ReturnBySink ==
    (Called /\ RemoteSink /\ call.out.raised = "") =>
        /\ call.out.value =
              IF ~self.feedback_variables THEN call.out.result
              ELSE IF Sink("s3")
              THEN PyTuple(<<call.out.result, call.out.metadata>>)
              ELSE PyTuple(<<call.out.result, call.out.run_id,
                             call.out.observation_id>>)
        /\ ~AnnotatorRan => call.out.result = call.in.target.result
        /\ Len(call.out.io) = 1 /\ call.out.io[1].ok
C8_Witness ==
    /\ Called /\ Sink("obs-stream") /\ self.feedback_variables
    /\ call.out.raised = ""
    /\ call.out.value = PyTuple(<<PyInt(10), call.out.run_id, call.out.observation_id>>)
    /\ firehose_count = call.before.firehose_count + 1

(***************************************************************************)
(* C9 (as stated): after a successful S3 dispatch exactly one document is  *)
(* stored under logs/{experiment_id}/{timestamp}_log.json, and reading it  *)
(* back gives a record whose field values are those of the record sent.    *)
(***************************************************************************)
DispatchKey ==
    [dir |-> "logs", experiment_id |-> self.experiment_id,
     timestamp |-> call.out.clock \div TicksPerSecond, suffix |-> "_log.json"]
DocumentsAtKey ==
    {o \in s3_objects : o.Bucket = self.s3_bucket_name /\ o.Key = DispatchKey}
RECURSIVE TuplesAsLists(_), HoldsTuple(_)
TuplesAsLists(v) ==
    CASE v.t \in {"list", "tuple"} ->
            PyList([n \in 1..Len(v.items) |-> TuplesAsLists(v.items[n])])
      [] v.t = "dict" ->
            PyDict([n \in 1..Len(v.kv) |-> Item(v.kv[n].k, TuplesAsLists(v.kv[n].v))])
      [] OTHER -> v
HoldsTuple(v) ==
    CASE v.t = "tuple" -> TRUE
      [] v.t = "list" -> \E n \in 1..Len(v.items) : HoldsTuple(v.items[n])
      [] v.t = "dict" -> \E n \in 1..Len(v.kv) : HoldsTuple(v.kv[n].v)
      [] OTHER -> FALSE
C10_InvalidFeatureRejectedFirst ==
    (/\ cons.kind = "init"
     /\ cons.args.feature_name \notin
            {None, PyStr("None"), PyStr("Agent"), PyStr("KB"), PyStr("InvokeModel")}) =>
        /\ cons.raised = "ValueError:feature_name"
        /\ cons.ops = <<>>
        /\ self = NoObject
        /\ buckets = cons.buckets_before
C10_Witness ==
    /\ cons.kind = "init"
    /\ cons.args.feature_name = PyStr("Bogus")
    /\ cons.args.delivery_stream_name = PyStr("s3")
    /\ cons.args.s3_bucket_name # None
    /\ cons.raised = "ValueError:feature_name"

(***************************************************************************)
(* C12: an invocation makes at most one write or submit to its sink and    *)
(* never retries; a failed S3 write leaves the wrapper as the one          *)
(* "Failed to save log to S3" error that wraps the client's error, a       *)
(* failed Firehose submit as the client's own error; in both cases nothing *)
(* is stored, and the target's result is not returned.                     *)
(***************************************************************************)
SinkRefused == Called /\ \E n \in 1..Len(call.out.io) : ~call.out.io[n].ok
C12_SingleDispatchAttempt ==
    Called =>
        /\ Len(call.out.io) <= 1
        /\ Sink("local") => call.out.io = <<>>
        /\ SinkRefused =>
              /\ call.out.value = None
              /\ s3_objects = call.before.s3_objects
              /\ firehose_count = call.before.firehose_count
              /\ IF Sink("s3")
                 THEN /\ call.out.raised = "Exception:Failed to save log to S3"
                      /\ call.out.cause = "ClientError"
                      /\ call.out.io[1].op = "put_object"
                 ELSE /\ call.out.raised = "ClientError"
                      /\ call.out.io[1].op = "put_record"
C12_Witness ==
    /\ SinkRefused /\ Sink("s3")
    /\ call.in.target.result = PyInt(10)
    /\ Len(call.out.io) = 1
    /\ call.out.raised = "Exception:Failed to save log to S3"
    /\ call.out.value = None

(***************************************************************************)
(* C13 (as stated): when the annotator returns normally, every node that   *)
(* carries start_trace_time (a top-level mapping, a top-level mapping's    *)
(* 'trace', an element of a top-level sequence, such an element's 'trace') *)
(* has latency and step_number.                                            *)
(***************************************************************************)
Carries(node) == HasKey(node, "start_trace_time")
TraceCarrier(m) ==
    IF HasKey(m, "trace") /\ Carries(DictGet(m, "trace"))
    THEN <<DictGet(m, "trace")>> ELSE <<>>
SelfCarrier(m) == IF Carries(m) THEN <<m>> ELSE <<>>
ElementCarriers(data) ==
    IF data.t = "dict" THEN SelfCarrier(data) \o TraceCarrier(data)
    ELSE IF data.t = "list"
         THEN Flatten([n \in 1..Len(data.items) |->
                         SelfCarrier(data.items[n]) \o TraceCarrier(data.items[n])])
         ELSE <<>>
CarrierNodes(output) ==
    IF output.t \in {"list", "tuple"}
    THEN Flatten([n \in 1..Len(output.items) |-> ElementCarriers(output.items[n])])
    ELSE <<>>
Annotated(node) == HasKey(node, "latency") /\ HasKey(node, "step_number")
AnnotatorReturned == AnnotatorRan /\ call.out.raised \notin {"ValueError", "TypeError"}
C13_EveryCarrierAnnotated ==
    AnnotatorReturned =>
        \A n \in 1..Len(CarrierNodes(call.out.result)) :
            Annotated(CarrierNodes(call.out.result)[n])

(***************************************************************************)
(* C13 (amended): when the annotator returns normally, latency and         *)
(* step_number have been given to exactly these nodes that carry           *)
(* start_trace_time: the 'trace' of a top-level mapping, an element of a   *)
(* top-level list, and the 'trace' of a list element that does not carry   *)
(* start_trace_time itself; every other node is left untouched, among them *)
(* a top-level mapping that carries start_trace_time itself and the        *)
(* 'trace' of a list element that carries it too.                          *)
(***************************************************************************)
RECURSIVE WithoutAnnotation(_, _)
\* the items of a mapping from item n on, without latency and step_number
WithoutAnnotation(kv, n) ==
    IF n > Len(kv) THEN <<>>
    ELSE (IF kv[n].k \in {"latency", "step_number"} THEN <<>> ELSE <<kv[n]>>)
         \o WithoutAnnotation(kv, n + 1)
EraseNode(node) == PyDict(WithoutAnnotation(node.kv, 1))
EraseTrace(m) ==
    IF HasKey(m, "trace") /\ Carries(DictGet(m, "trace"))
    THEN DictSet(m, "trace", EraseNode(DictGet(m, "trace"))) ELSE m
EraseItem(item) == IF Carries(item) THEN EraseNode(item) ELSE EraseTrace(item)
EraseElement(data) ==
    IF HasKey(data, "trace") THEN EraseTrace(data)
    ELSE IF data.t = "list"
         THEN PyList([n \in 1..Len(data.items) |-> EraseItem(data.items[n])])
         ELSE data
\* the output with the annotations of its qualifying nodes taken away
Erase(output) ==
    [output EXCEPT !.items = [n \in 1..Len(output.items) |-> EraseElement(output.items[n])]]
C13_QualifyingNodesAnnotated ==
    (AnnotatorReturned /\ call.out.result.t \in {"list", "tuple"}) =>
        /\ \A n \in 1..Len(QualifyingNodes(call.out.result)) :
              Annotated(QualifyingNodes(call.out.result)[n])
        /\ Len(QualifyingNodes(call.out.result)) =
              Len(QualifyingNodes(call.in.target.result))
        /\ Erase(call.out.result) = call.in.target.result
C13_Witness ==
    /\ AnnotatorReturned /\ call.in.target.result = AgentOutputFlat
    /\ call.out.raised = ""
    /\ Len(QualifyingNodes(call.out.result)) = 1
    /\ Len(CarrierNodes(call.out.result)) = 3
    /\ ~Annotated(call.out.result.items[1])
    /\ Annotated(call.out.result.items[2].items[1])

(***************************************************************************)
(* C15: the run id is resolved from the first element of the annotated     *)
(* output if and only if the feature is 'Agent' and the output was         *)
(* captured and is not None; in every other case from the captured input:  *)
(* the first positional argument, or None when the input is not captured   *)
(* or there is no positional argument.                                     *)
(***************************************************************************)
CapturedInput ==
    IF call.in.w.capture_input /\ Len(call.in.args) > 0 THEN call.in.args[1] ELSE None
C15_RunIdSource ==
    (Called /\ call.out.metadata # NoRecord) =>
        /\ call.out.log_data =
              IF AnnotatorRan THEN call.out.result.items[1] ELSE CapturedInput
        /\ ~AnnotatorRan => call.out.log = <<>> /\ call.out.result = call.in.target.result
        /\ LET matches == find_keys(call.out.log_data, SessionKey(self.feature_name), <<>>)
           IN  Len(matches) > 0 => call.out.run_id = matches[1][2]
C15_Witness ==
    /\ Called /\ IsAgent /\ ~call.in.w.capture_output
    /\ call.in.target.result = AgentOutputOk
    /\ call.out.log_data = SessionPayload
    /\ call.out.run_id = PyStr("agent-in")
    /\ DictGet(call.out.metadata, "output_log") = None

(***************************************************************************)
(* C16: the record is the base record, overlaid with additional_metadata,  *)
(* then with user_prompt, later values winning: a key of both caller       *)
(* mappings has the user_prompt value, a key of either that is also a base *)
(* field replaces that field, and every other base field keeps its value.  *)
(***************************************************************************)
\* the base record's fields, as the call's inputs and outcome determine them
BaseFields ==
    {"experiment_id", "run_id", "observation_id", "obs_timestamp", "start_time",
     "end_time", "duration", "input_log", "output_log", "call_type", "feature_name",
     "feedback_enabled"}
BaseValue(field) ==
    CASE field = "experiment_id" -> self.experiment_id
      [] field = "run_id" -> call.out.run_id
      [] field = "observation_id" -> call.out.observation_id
      [] field = "obs_timestamp" -> [t |-> "str", iso |-> call.before.now]
      [] field = "start_time" -> [t |-> "str", iso |-> call.before.now]
      [] field = "end_time" -> [t |-> "str", iso |-> call.before.now + call.d]
      [] field = "duration" -> PyFloat(call.d)
      [] field = "input_log" -> CapturedInput
      [] field = "output_log" ->
            IF call.in.w.capture_output THEN call.out.result ELSE None
      [] field = "call_type" ->
            IF call.in.w.call_type # None THEN call.in.w.call_type ELSE PyStr("LLM")
      [] field = "feature_name" -> self.feature_name
      [] field = "feedback_enabled" -> PyBool(self.feedback_variables)
KeysOf(d) == {d.kv[n].k : n \in 1..Len(d.kv)}
Dispatched == Called /\ call.out.metadata # NoRecord
C16_MergeOrder ==
    Dispatched =>
        LET extra == CallerFields("additional_metadata")
            prompt == CallerFields("user_prompt")
            record == call.out.metadata
        IN  /\ KeysOf(record) =
                  BaseFields \cup KeysOf(extra) \cup KeysOf(prompt) \cup {"logging_duration"}
            /\ \A n \in 1..Len(record.kv) :
                  record.kv[n].k # "logging_duration" =>
                      record.kv[n].v =
                          IF HasKey(prompt, record.kv[n].k)
                          THEN DictGet(prompt, record.kv[n].k)
                          ELSE IF HasKey(extra, record.kv[n].k)
                          THEN DictGet(extra, record.kv[n].k)
                          ELSE BaseValue(record.kv[n].k)
            /\ \A n, m \in 1..Len(record.kv) : record.kv[n].k = record.kv[m].k => n = m
C16_Witness ==
    /\ Dispatched
    /\ HasKey(call.in.kwargs, "additional_metadata") /\ HasKey(call.in.kwargs, "user_prompt")
    /\ DictGet(call.out.metadata, "tag") = PyStr("b")
    /\ DictGet(call.out.metadata, "team") = PyStr("nlp")
    /\ DictGet(call.out.metadata, "run_id") = PyStr("forced")
    /\ DictGet(call.out.metadata, "input_log") = PyStr("prompt")
    /\ DictGet(call.out.metadata, "call_type") = PyStr("Converse-API")

(***************************************************************************)
(* C17: when two threads run the annotator of one recorder without         *)
(* serialization, a state is reachable in which two nodes have the same    *)
(* step number and the counter is lower than the number of nodes           *)
(* annotated (the witness); when the calls do not overlap, the step        *)
(* numbers are 0, 1, 2, ... without repetition and the counter ends as the *)
(* number of nodes annotated.  The counter never exceeds that number.      *)
(***************************************************************************)
Racing == DOMAIN threads = {"pc", "todo", "loaded", "overlapped"}
AllReturned == \A t \in Threads : threads.pc[t] = "done"
C17_SerializedCallsKeepCount ==
    Racing =>
        /\ self.step_counter <= Len(steps)
        /\ \A n \in 1..Len(steps) : steps[n] <= n - 1
        /\ ~threads.overlapped =>
              /\ steps = [n \in 1..Len(steps) |-> n - 1]
              /\ (\A t \in Threads : ~Inside(t)) => self.step_counter = Len(steps)
C17_Witness ==
    /\ Racing /\ AllReturned /\ threads.overlapped
    /\ \E n, m \in 1..Len(steps) : n # m /\ steps[n] = steps[m]
    /\ Len(steps) = Cardinality(Threads) * NodesPerCall
    /\ self.step_counter < Len(steps)

(***************************************************************************)
(* C18: when the annotator raises on a node whose start_trace_time is not  *)
(* a float, the qualifying nodes before it keep the latency and            *)
(* step_number just written, the nodes from it on have none, and the step *)
(* counter stays advanced by the number of nodes annotated before the      *)
(* failure; the step numbers of the next call that annotates start there.  *)
(***************************************************************************)
\* the position of the first qualifying node whose start_trace_time is no float
FirstBad(q) == CHOOSE n \in 1..Len(q) :
                  /\ StartOf(q[n]).t # "float"
                  /\ \A m \in 1..(n - 1) : StartOf(q[m]).t = "float"
C18_PartialAnnotationKept ==
    /\ (AnnotatorRan /\ call.out.raised = "ValueError") =>
          LET q == QualifyingNodes(call.out.result)
              bad == FirstBad(QualifyingNodes(call.in.target.result))
          IN  /\ Len(q) = Len(QualifyingNodes(call.in.target.result))
              /\ Len(call.out.log) = bad - 1
              /\ \A n \in 1..Len(q) :
                    IF n < bad
                    THEN /\ Annotated(q[n])
                         /\ DictGet(q[n], "step_number") =
                               PyInt(call.before.step_counter + n - 1)
                    ELSE ~HasKey(q[n], "latency") /\ ~HasKey(q[n], "step_number")
              /\ self.step_counter = call.before.step_counter + bad - 1
              /\ Len(steps) = self.step_counter
    /\ (AnnotatorRan /\ Len(call.out.log) > 0) =>
          /\ call.out.log[1].step_number = call.before.step_counter
          /\ call.before.step_counter = Len(steps) - Len(call.out.log)
C18_Witness ==
    /\ AnnotatorRan /\ ncalls = 2 /\ call.out.raised = ""
    /\ call.in.target.result = AgentOutputOk
    /\ call.before.step_counter = 1
    /\ steps = <<0, 1, 2, 3>>
    /\ DictGet(QualifyingNodes(call.out.result)[1], "step_number") = PyInt(1)

(***************************************************************************)
(* C19: the object key of a dispatch is made of the experiment id and the  *)
(* instant of the dispatch cut to whole seconds and of nothing else, so a  *)
(* successful dispatch replaces whatever document an earlier dispatch with *)
(* the same experiment id stored in the same second: the bucket then holds *)
(* fewer documents than there were successful dispatches.                  *)
(***************************************************************************)
StoredBefore ==
    {o \in call.before.s3_objects :
        o.Bucket = self.s3_bucket_name /\ o.Key = DispatchKey}
C19_SameSecondOverwrites ==
    (Called /\ Sink("s3") /\ call.out.raised = "") =>
        /\ call.out.io[1].Key =
              object_key(self.experiment_id, strftime_seconds(call.out.clock))
        /\ s3_objects = (call.before.s3_objects \ StoredBefore)
                          \cup {[Bucket |-> self.s3_bucket_name,
                                  Key |-> call.out.io[1].Key,
                                  Body |-> call.out.io[1].Body]}
        /\ Cardinality(s3_objects) =
              Cardinality(call.before.s3_objects)
                + (IF StoredBefore = {} THEN 1 ELSE 0)
        /\ Cardinality(s3_objects) <= ncalls
C19_Witness ==
    /\ Called /\ Sink("s3") /\ call.out.raised = "" /\ ncalls = 2
    /\ \E o \in StoredBefore : o.Body # call.out.io[1].Body
    /\ Cardinality(call.before.s3_objects) = 1
    /\ Cardinality(s3_objects) = 1
    /\ \A o \in s3_objects : o.Body = call.out.io[1].Body

(***************************************************************************)
(* C20: a field of the caller's additional_metadata or user_prompt that    *)
(* has the name of a core field replaces it in the dispatched record,      *)
(* run_id and observation_id included; logging_duration is written after   *)
(* the merge and always holds the recorder's own measurement; with the     *)
(* streaming sink and feedback the wrapper returns the run id and the      *)
(* observation id it computed before the merge, whatever the record holds. *)
(***************************************************************************)
CallerValue(field) ==
    IF HasKey(CallerFields("user_prompt"), field)
    THEN DictGet(CallerFields("user_prompt"), field)
    ELSE DictGet(CallerFields("additional_metadata"), field)
C20_CallerFieldsReplaceCore ==
    Dispatched =>
        /\ \A field \in BaseFields :
              CallerSets(field) =>
                  DictGet(call.out.metadata, field) = CallerValue(field)
        /\ DictGet(call.out.metadata, "logging_duration") = PyFloat(0)
        /\ call.out.observation_id = uuid4(call.before.uuid_n)
        /\ (~Sink("local") /\ ~Sink("s3") /\ self.feedback_variables
               /\ call.out.raised = "") =>
              call.out.value = PyTuple(<<call.out.result, call.out.run_id,
                                         call.out.observation_id>>)
C20_Witness ==
    /\ Dispatched /\ Sink("obs-stream") /\ self.feedback_variables
    /\ call.out.raised = ""
    /\ CallerSets("run_id") /\ CallerSets("observation_id")
    /\ DictGet(call.out.metadata, "run_id") = PyStr("forced")
    /\ DictGet(call.out.metadata, "observation_id") = PyStr("obs-forced")
    /\ call.out.value.items[2] # DictGet(call.out.metadata, "run_id")
    /\ call.out.value.items[3] # DictGet(call.out.metadata, "observation_id")
    /\ call.out.value.items[3] = uuid4(call.before.uuid_n)

(***************************************************************************)
(* C22: with feature 'Agent' and the output captured, a target that        *)
(* returns an empty sequence makes the wrapper raise IndexError at         *)
(* output_data[0]: the caller gets the error and not the result, no record *)
(* is built or sent, the step counter is unchanged, and no session id is   *)
(* taken from the input nor a fresh identifier drawn in its place.         *)
(***************************************************************************)
EmptyOutput ==
    /\ AnnotatorRan
    /\ call.in.target.result.t \in {"list", "tuple"}
    /\ call.in.target.result.items = <<>>
C22_EmptyOutputRaises ==
    EmptyOutput =>
        /\ call.out.raised = "IndexError"
        /\ call.out.value = None
        /\ call.out.metadata = NoRecord
        /\ NoSinkIO
        /\ call.out.log = <<>>
        /\ self.step_counter = call.before.step_counter
        /\ call.out.run_id = None
        /\ fresh_ids = call.before.fresh_ids
        /\ uuid_n = call.before.uuid_n + 1
C22_Witness ==
    /\ EmptyOutput /\ ncalls = 2
    /\ call.out.raised = "IndexError"
    /\ call.in.args = <<SessionPayload>>
    /\ call.before.step_counter = 3 /\ self.step_counter = 3

(***************************************************************************)
(* C21: the start time the annotator measures the first latency from is an *)
(* attribute of the recorder, written by every invocation when it starts:  *)
(* the latency of an invocation's first qualifying node is its trace time  *)
(* less the start time of the invocation that started last before the      *)
(* annotation ran, which is another invocation's when one started in       *)
(* between, and the invocation's own only when none did.                   *)
(***************************************************************************)
Annotation(i) == QualifyingNodes(threads.output[i])[1]
FirstLatency(i) == DictGet(Annotation(i), "latency")
C21_BaselineIsLatestStart ==
    \A i \in Invocations :
        threads.pc[i] = "done" =>
            /\ threads.seen[i] \in Invocations
            /\ threads.pc[threads.seen[i]] # "idle"
            /\ threads.started[threads.seen[i]] >= threads.started[i]
            /\ Len(QualifyingNodes(threads.output[i])) = 2
            /\ FirstLatency(i) =
                  PyFloat(Num(StartOf(QualifyingNodes(threads.returned[i])[1]))
                            - threads.started[threads.seen[i]])
C21_Witness ==
    /\ threads.pc[1] = "done" /\ threads.pc[2] # "idle"
    /\ threads.seen[1] = 2
    /\ threads.started[1] = 0 /\ threads.started[2] = 2
    /\ StartOf(Annotation(1)) = PyFloat(3)
    /\ FirstLatency(1) = PyFloat(1)
    /\ FirstLatency(1) # PyFloat(3 - threads.started[1])

(***************************************************************************)
(* Auxiliary definitions for the properties of find_keys.                  *)
(***************************************************************************)
Missing == [t |-> "missing"]
\* one step along a path: into a mapping by key, into a list by index
Step(node, e) ==
    IF "k" \in DOMAIN e
    THEN IF HasKey(node, e.k) THEN DictGet(node, e.k) ELSE Missing
    ELSE IF node.t = "list" /\ e.i >= 0 /\ e.i < Len(node.items)
         THEN node.items[e.i + 1] ELSE Missing
RECURSIVE Follow(_, _, _)
\* the node reached from node by the first n elements of path
Follow(node, path, n) ==
    IF n = 0 THEN node ELSE Step(Follow(node, path, n - 1), path[n])
RECURSIVE Occurs(_, _)
\* key occurs somewhere in the tree as a mapping's key
Occurs(node, key) ==
    CASE node.t = "dict" ->
            \E n \in 1..Len(node.kv) : node.kv[n].k = key \/ Occurs(node.kv[n].v, key)
      [] node.t \in {"list", "tuple"} ->
            \E n \in 1..Len(node.items) : Occurs(node.items[n], key)
      [] OTHER -> FALSE
Found == finder.kind = "find_keys"

(***************************************************************************)
(* C11: every (path, value) pair that find_keys returns is sound: the path *)
(* ends with the key, following it from the root reaches a mapping that    *)
(* holds the key, and the value under the key there is the value reported; *)
(* a tree in which the key does not occur gives an empty result.           *)
(***************************************************************************)
C11_FinderSound ==
    Found =>
        /\ \A n \in 1..Len(finder.results) :
              LET path == finder.results[n][1]
                  value == finder.results[n][2]
                  parent == Follow(finder.dictionary, path, Len(path) - 1)
              IN  /\ Len(path) >= 1
                  /\ path[Len(path)] = [k |-> finder.key]
                  /\ HasKey(parent, finder.key)
                  /\ DictGet(parent, finder.key) = value
                  /\ Follow(finder.dictionary, path, Len(path)) = value
        /\ ~Occurs(finder.dictionary, finder.key) => finder.results = <<>>
C11_Witness ==
    /\ Found
    /\ finder.dictionary = PyList(<<Leaf, PyDict(<<Item("a", Leaf), Item("k", Leaf)>>)>>)
    /\ finder.key = "k"
    /\ finder.results = << << <<[i |-> 1], [k |-> "k"]>>, Leaf >> >>

(***************************************************************************)
(* C14: find_keys also descends into the value stored under a matching     *)
(* key: the occurrences of the key inside a match's value are reported as  *)
(* further pairs, after the enclosing match.                               *)
(***************************************************************************)
C14_DescendsIntoMatches ==
    Found =>
        \A n \in 1..Len(finder.results) :
            LET nested == find_keys(finder.results[n][2], finder.key, finder.results[n][1])
            IN  \A m \in 1..Len(nested) :
                    \E j \in (n + 1)..Len(finder.results) : finder.results[j] = nested[m]
====
